---- MODULE Spec2Model ----
(***************************************************************************)
(* ZkVM constraint compiler (zkvm/src/constraints.rs): Expression,        *)
(* Constraint, Constraint::flatten and Constraint::verify, run against an  *)
(* R1CS constraint-system engine that is modelled at its interface         *)
(* (allocate_multiplier, multiply, constrain, challenge_scalar,            *)
(* specify_randomized_constraints).                                        *)
(***************************************************************************)
EXTENDS Integers, Sequences, FiniteSets, TLC

VARIABLES tree, pc, pcs, vcs, pres, vres, lhs, rhs, product, wires

vars == <<tree, pc, pcs, vcs, pres, vres, lhs, rhs, product, wires>>

(***************************************************************************)
(* Scalars: a prime field.  curve25519_dalek::scalar::Scalar is the field  *)
(* of prime order l; the model keeps the field structure with a small      *)
(* prime modulus.                                                          *)
(***************************************************************************)
P == 5

Field == 0 .. (P - 1)

FAdd(a, b) == (a + b) % P

FNeg(a) == (P - a) % P

FSub(a, b) == (a + P - b) % P

FMul(a, b) == (a * b) % P

RECURSIVE FPow(_, _)
FPow(a, n) == IF n = 0 THEN 1 ELSE FMul(a, FPow(a, n - 1))

\* Scalar::invert: x^(l-2); the inverse of every non-zero scalar.
Invert(a) == FPow(a, P - 2)

\* Option<T>: None is the empty sequence, Some(x) the one-element sequence.
None == << >>

Some(x) == << x >>

IsSome(o) == o # None

Unwrap(o) == o[1]

(***************************************************************************)
(* Bounds of the model.                                                    *)
(***************************************************************************)
\* Number of And/Or/Not nodes of a constraint tree.
MaxConn == 2

\* The engine may reject the k-th allocate_multiplier call, k in 1..MaxFail.
MaxFail == 3

(***************************************************************************)
(* r1cs::Variable and r1cs::LinearCombination (a vector of terms).         *)
(***************************************************************************)
One == << "One", 0 >>

Committed(i) == << "C", i >>

MultiplierLeft(g) == << "L", g >>

MultiplierRight(g) == << "R", g >>

MultiplierOutput(g) == << "O", g >>

Term(v, c) == [var |-> v, coeff |-> c]

LCFromVar(v) == << Term(v, 1) >>

LCFromScalar(s) == << Term(One, s) >>

LCAdd(a, b) == a \o b

LCNeg(a) == [i \in 1 .. Len(a) |-> Term(a[i].var, FNeg(a[i].coeff))]

LCSub(a, b) == a \o LCNeg(b)

LCScale(z, a) == [i \in 1 .. Len(a) |-> Term(a[i].var, FMul(z, a[i].coeff))]

RECURSIVE EvalLC(_, _)
\* The value of a linear combination under a valuation of the wires.
EvalLC(lc, val) ==
    IF lc = << >> THEN 0
    ELSE FAdd(FMul(lc[1].coeff, val[lc[1].var]), EvalLC(Tail(lc), val))

(***************************************************************************)
(* Expression                                                              *)
(***************************************************************************)
Constant(a) == [kind |-> "Constant", val |-> a]

LinearCombination(terms, assignment) ==
    [kind |-> "LinearCombination", terms |-> terms, assignment |-> assignment]

ToR1csLc(e) ==
    IF e.kind = "Constant" THEN LCFromScalar(e.val) ELSE e.terms

Eval(e) ==
    IF e.kind = "Constant" THEN Some(e.val) ELSE e.assignment

(***************************************************************************)
(* Constraint                                                              *)
(***************************************************************************)
Eq(e1, e2) == [kind |-> "Eq", e1 |-> e1, e2 |-> e2]

And(c1, c2) == [kind |-> "And", c1 |-> c1, c2 |-> c2]

Or(c1, c2) == [kind |-> "Or", c1 |-> c1, c2 |-> c2]

Not(c1) == [kind |-> "Not", c1 |-> c1]

(***************************************************************************)
(* Commitments of the high-level variables.  The prover holds Open         *)
(* commitments (value known), the verifier Closed ones (point only).       *)
(***************************************************************************)
\* The secret values behind the committed variables 1..Len(Secrets).
Secrets == << 0, 1, 2 >>

\* Commitment::assignment: Some(value) for Open, None for Closed.
Assignment(i, open) == IF open THEN Some(Secrets[i]) ELSE None

\* The expression of a committed variable: a one-term linear combination.
VarExpr(i, open) ==
    LinearCombination(<< Term(Committed(i), 1) >>, Assignment(i, open))

RECURSIVE CloseTree(_)
\* The same constraint tree built from Closed commitments (verifier view):
\* every linear combination's assignment is None.
CloseTree(c) ==
    CASE c.kind = "Eq" ->
            LET close(e) == IF e.kind = "Constant" THEN e
                            ELSE LinearCombination(e.terms, None)
            IN  Eq(close(c.e1), close(c.e2))
      [] c.kind = "And" -> And(CloseTree(c.c1), CloseTree(c.c2))
      [] c.kind = "Or" -> Or(CloseTree(c.c1), CloseTree(c.c2))
      [] c.kind = "Not" -> Not(CloseTree(c.c1))

(***************************************************************************)
(* The constraint-system engine (bulletproofs r1cs), at its interface.     *)
(*   gates       : the allocated multipliers; a gate made by `multiply`    *)
(*                 has its left/right wires fed by linear combinations,    *)
(*                 one made by `allocate_multiplier` has free wires; the   *)
(*                 prover's engine also holds the wire values              *)
(*   constraints : the registered linear constraints (each lc == 0)       *)
(*   calls       : the calls received, in order                            *)
(*   deferred    : closures given to specify_randomized_constraints        *)
(*   phase       : "first" until the commitments are fixed, then           *)
(*                 "randomized"                                            *)
(*   seed        : the transcript as the commitments fixed it              *)
(*   transcript  : what the next challenge is derived from                 *)
(*   nalloc, failAt : the engine rejects the failAt-th allocate_multiplier *)
(***************************************************************************)
NewCS(role) ==
    [role |-> role, phase |-> "first", seed |-> 0, transcript |-> 0,
     gates |-> << >>,
     constraints |-> << >>, calls |-> << >>, deferred |-> << >>,
     nalloc |-> 0, failAt |-> 0]

Call(op, a, b, assg, cs) ==
    [op |-> op, a |-> a, b |-> b, assg |-> assg, phase |-> cs.phase]

Log(cs, call) == [cs EXCEPT !.calls = Append(@, call)]

\* The wires of the engine: the constant one, the committed variables and
\* three wires per gate.
WiresOf(cs) ==
    {One} \cup {Committed(i) : i \in 1 .. Len(Secrets)}
          \cup {<< k, g >> : k \in {"L", "R", "O"}, g \in 1 .. Len(cs.gates)}

\* The values the prover's engine holds for the wires.
ProverValuation(cs) ==
    [v \in WiresOf(cs) |->
        CASE v[1] = "One" -> 1
          [] v[1] = "C" -> Secrets[v[2]]
          [] v[1] = "L" -> Unwrap(cs.gates[v[2]].assg)[1]
          [] v[1] = "R" -> Unwrap(cs.gates[v[2]].assg)[2]
          [] v[1] = "O" -> Unwrap(cs.gates[v[2]].assg)[3]]

\* cs.allocate_multiplier(assignment): a gate with free left/right wires, or
\* an error when the engine rejects the allocation.
AllocateMultiplier(cs, assg) ==
    LET logged == Log(cs, Call("allocate_multiplier", << >>, << >>, assg, cs))
        n == cs.nalloc + 1
        g == Len(cs.gates) + 1
        gate == [left |-> None, right |-> None,
                 assg |-> IF IsSome(assg) /\ cs.role = "prover"
                          THEN Some(<< Unwrap(assg)[1], Unwrap(assg)[2],
                                       FMul(Unwrap(assg)[1], Unwrap(assg)[2]) >>)
                          ELSE None]
    IN  IF n = cs.failAt
        THEN [ok |-> FALSE, cs |-> [logged EXCEPT !.nalloc = n],
              l |-> One, r |-> One, o |-> One]
        ELSE [ok |-> TRUE,
              cs |-> [logged EXCEPT !.nalloc = n, !.gates = Append(@, gate)],
              l |-> MultiplierLeft(g), r |-> MultiplierRight(g),
              o |-> MultiplierOutput(g)]

\* cs.multiply(a, b): one gate whose left wire is a and right wire is b; it
\* has no error result.
EngineMultiply(cs, a, b) ==
    LET logged == Log(cs, Call("multiply", a, b, None, cs))
        g == Len(cs.gates) + 1
        val == ProverValuation(cs)
        gate == [left |-> Some(a), right |-> Some(b),
                 assg |-> IF cs.role = "prover"
                          THEN Some(<< EvalLC(a, val), EvalLC(b, val),
                                       FMul(EvalLC(a, val), EvalLC(b, val)) >>)
                          ELSE None]
    IN  [cs |-> [logged EXCEPT !.gates = Append(@, gate)],
         l |-> MultiplierLeft(g), r |-> MultiplierRight(g),
         o |-> MultiplierOutput(g)]

\* cs.constrain(lc): registers lc == 0.
Constrain(cs, lc) ==
    [Log(cs, Call("constrain", lc, << >>, None, cs))
        EXCEPT !.constraints = Append(@, lc)]

\* cs.challenge_scalar(label): a scalar derived from the transcript, which
\* the draw advances.
ChallengeScalar(cs) ==
    [cs |-> [Log(cs, Call("challenge_scalar", << >>, << >>, None, cs))
                EXCEPT !.transcript = (@ + 1) % P],
     z |-> cs.transcript]

\* cs.specify_randomized_constraints(closure): the closure is kept and run
\* by the engine in its randomized phase.
SpecifyRandomizedConstraints(cs, closure) ==
    [cs EXCEPT !.deferred = Append(@, closure)]

(***************************************************************************)
(* Constraint::flatten.  A result is [ok, cs, lc, assg]: Ok((lc, assg)) or *)
(* Err, together with the engine as the call leaves it (cs is &mut).       *)
(***************************************************************************)
Ok(cs, lc, assg) == [ok |-> TRUE, cs |-> cs, lc |-> lc, assg |-> assg]

Err(cs) == [ok |-> FALSE, cs |-> cs, lc |-> << >>, assg |-> None]

\* Eq: expr1.eval().and_then(|x| expr2.eval().map(|y| (x - y).to_scalar()))
EqAssignment(e1, e2) ==
    IF IsSome(Eval(e1)) /\ IsSome(Eval(e2))
    THEN Some(FSub(Unwrap(Eval(e1)), Unwrap(Eval(e2))))
    ELSE None

FlattenEq(e1, e2, cs) ==
    Ok(cs, LCSub(ToR1csLc(e1), ToR1csLc(e2)), EqAssignment(e1, e2))

\* Variant of AndAssignment: the challenge is left out of the combination.
AndAssignmentNoChallenge(a, b, z) == FAdd(a, b)

\* And: a + z * b on the assignments.
AndAssignment(a, b, z) == FAdd(a, FMul(z, b))

\* ra, rb: the results of flattening c1 and then c2 (rb.cs is the engine
\* after both).
FlattenAnd(ra, rb) ==
    LET ch == ChallengeScalar(rb.cs)
        assignment ==
            IF IsSome(ra.assg) /\ IsSome(rb.assg)
            THEN Some(AndAssignment(Unwrap(ra.assg), Unwrap(rb.assg), ch.z))
            ELSE None
    IN  Ok(ch.cs, LCAdd(ra.lc, LCScale(ch.z, rb.lc)), assignment)

\* Variant of OrAssignment: the sum in place of the product.
OrAssignmentSum(a, b) == FAdd(a, b)

\* Or: a * b on the assignments.
OrAssignment(a, b) == FMul(a, b)

\* Variant of FlattenOr: the gate is allocated with free wires and wired by
\* two explicit constraints.
FlattenOrExplicitWiring(ra, rb) ==
    LET m == AllocateMultiplier(rb.cs, None)
        cs2 == Constrain(Constrain(m.cs, LCSub(LCFromVar(m.l), ra.lc)),
                         LCSub(LCFromVar(m.r), rb.lc))
        assignment ==
            IF IsSome(ra.assg) /\ IsSome(rb.assg)
            THEN Some(FMul(Unwrap(ra.assg), Unwrap(rb.assg)))
            ELSE None
    IN  IF ~m.ok THEN Err(m.cs) ELSE Ok(cs2, LCFromVar(m.o), assignment)

FlattenOr(ra, rb) ==
    LET m == EngineMultiply(rb.cs, ra.lc, rb.lc)
        assignment ==
            IF IsSome(ra.assg) /\ IsSome(rb.assg)
            THEN Some(OrAssignment(Unwrap(ra.assg), Unwrap(rb.assg)))
            ELSE None
    IN  Ok(m.cs, LCFromVar(m.o), assignment)

\* x.ct_eq(&y)
CtEq(x, y) == x = y

\* Scalar::conditional_select(a, b, choice): b when choice is set, else a.
ConditionalSelect(a, b, choice) == IF choice THEN b ELSE a

\* Variant of NotAssignments: the two arms of the selection of y swapped.
NotAssignmentsSwapped(x_assg) ==
    IF IsSome(x_assg)
    THEN LET x == Unwrap(x_assg)
             is_zero == CtEq(x, 0)
             y == ConditionalSelect(1, 0, is_zero)
             w == Invert(ConditionalSelect(x, 1, is_zero))
         IN  [xy |-> Some(<< x, y >>), xw |-> Some(<< x, w >>), y |-> Some(y)]
    ELSE [xy |-> None, xw |-> None, y |-> None]

\* Variant of NotAssignments: w is not inverted.
NotAssignmentsNoInvert(x_assg) ==
    IF IsSome(x_assg)
    THEN LET x == Unwrap(x_assg)
             is_zero == CtEq(x, 0)
             y == ConditionalSelect(0, 1, is_zero)
             w == ConditionalSelect(x, 1, is_zero)
         IN  [xy |-> Some(<< x, y >>), xw |-> Some(<< x, w >>), y |-> Some(y)]
    ELSE [xy |-> None, xw |-> None, y |-> None]

\* Not: the assignments of the wires, from the child's assignment.
NotAssignments(x_assg) ==
    IF IsSome(x_assg)
    THEN LET x == Unwrap(x_assg)
             is_zero == CtEq(x, 0)
             y == ConditionalSelect(0, 1, is_zero)
             w == Invert(ConditionalSelect(x, 1, is_zero))
         IN  [xy |-> Some(<< x, y >>), xw |-> Some(<< x, w >>), y |-> Some(y)]
    ELSE [xy |-> None, xw |-> None, y |-> None]

\* Variant of NotConstraints: constraint (3), o1 == 0, is not registered
\* (constraint (2) is registered twice).
NotConstraintsNoZeroProduct(l1, r1, o1, l2, o2, x_lc) ==
    << LCSub(LCFromVar(l1), x_lc),
       LCSub(LCFromVar(l1), LCFromVar(l2)),
       LCSub(LCFromVar(l1), LCFromVar(l2)),
       LCAdd(LCSub(LCFromVar(o2), LCFromScalar(1)), LCFromVar(r1)) >>

\* Not: the four linear constraints, in the order they are registered.
NotConstraints(l1, r1, o1, l2, o2, x_lc) ==
    << LCSub(LCFromVar(l1), x_lc),
       LCSub(LCFromVar(l1), LCFromVar(l2)),
       LCFromVar(o1),
       LCAdd(LCSub(LCFromVar(o2), LCFromScalar(1)), LCFromVar(r1)) >>

\* Variant of FlattenNot: without a known assignment the gadget is skipped.
FlattenNotOnlyWithWitness(rx) ==
    LET na == NotAssignments(rx.assg)
        m1 == AllocateMultiplier(rx.cs, na.xy)
        m2 == AllocateMultiplier(m1.cs, na.xw)
        k == NotConstraints(m1.l, m1.r, m1.o, m2.l, m2.o, rx.lc)
        cs4 == Constrain(Constrain(Constrain(Constrain(m2.cs, k[1]), k[2]), k[3]), k[4])
    IN  IF ~IsSome(rx.assg) THEN Ok(rx.cs, rx.lc, None)
        ELSE IF ~m1.ok THEN Err(m1.cs)
        ELSE IF ~m2.ok THEN Err(m2.cs)
        ELSE Ok(cs4, LCFromVar(m1.r), na.y)

\* rx: the result of flattening c1.
FlattenNot(rx) ==
    LET na == NotAssignments(rx.assg)
        m1 == AllocateMultiplier(rx.cs, na.xy)
        m2 == AllocateMultiplier(m1.cs, na.xw)
        k == NotConstraints(m1.l, m1.r, m1.o, m2.l, m2.o, rx.lc)
        cs4 == Constrain(Constrain(Constrain(Constrain(m2.cs, k[1]), k[2]), k[3]), k[4])
    IN  IF ~m1.ok THEN Err(m1.cs)
        ELSE IF ~m2.ok THEN Err(m2.cs)
        ELSE Ok(cs4, LCFromVar(m1.r), na.y)

RECURSIVE Flatten(_, _)
Flatten(c, cs) ==
    CASE c.kind = "Eq" -> FlattenEq(c.e1, c.e2, cs)
      [] c.kind = "And" ->
            LET ra == Flatten(c.c1, cs)
                rb == Flatten(c.c2, ra.cs)
            IN  IF ~ra.ok THEN ra ELSE IF ~rb.ok THEN rb ELSE FlattenAnd(ra, rb)
      [] c.kind = "Or" ->
            LET ra == Flatten(c.c1, cs)
                rb == Flatten(c.c2, ra.cs)
            IN  IF ~ra.ok THEN ra ELSE IF ~rb.ok THEN rb ELSE FlattenOr(ra, rb)
      [] c.kind = "Not" ->
            LET rx == Flatten(c.c1, cs)
            IN  IF ~rx.ok THEN rx ELSE FlattenNot(rx)

\* The closure verify hands to the engine: flatten, then constrain the
\* flattened combination; an error of flatten is returned before constrain.
VerifyClosure(c, cs) ==
    LET r == Flatten(c, cs)
    IN  IF r.ok THEN Ok(Constrain(r.cs, r.lc), r.lc, r.assg) ELSE r

\* Variant of VerifyCall: the closure is also run at once.
VerifyCallEager(c, cs) ==
    SpecifyRandomizedConstraints(VerifyClosure(c, cs).cs, c)

\* Constraint::verify: hands the closure (which owns the constraint) to the
\* engine and does nothing else.
VerifyCall(c, cs) == SpecifyRandomizedConstraints(cs, c)

(***************************************************************************)
(* Expression::multiply.  The result is the expression and the engine.     *)
(***************************************************************************)
OptMul(l, r) ==
    IF IsSome(l) /\ IsSome(r) THEN Some(FMul(Unwrap(l), Unwrap(r))) ELSE None

\* Variant of Multiply: a constant left operand is lifted to a linear
\* combination and multiplied in a gate.
MultiplyNoConstantFolding(l, r, cs) ==
    LET lt == ToR1csLc(l)
        rt == ToR1csLc(r)
        m == EngineMultiply(cs, lt, rt)
    IN  IF l.kind = "Constant" /\ r.kind = "Constant"
        THEN [expr |-> Constant(FMul(l.val, r.val)), cs |-> cs]
        ELSE [expr |-> LinearCombination(<< Term(m.o, 1) >>,
                                         OptMul(Eval(l), Eval(r))),
              cs |-> m.cs]

Multiply(l, r, cs) ==
    CASE l.kind = "Constant" /\ r.kind = "Constant" ->
            [expr |-> Constant(FMul(l.val, r.val)), cs |-> cs]
      [] l.kind = "Constant" /\ r.kind = "LinearCombination" ->
            [expr |-> LinearCombination(LCScale(l.val, r.terms),
                                        OptMul(r.assignment, Some(l.val))),
             cs |-> cs]
      [] l.kind = "LinearCombination" /\ r.kind = "Constant" ->
            [expr |-> LinearCombination(LCScale(r.val, l.terms),
                                        OptMul(l.assignment, Some(r.val))),
             cs |-> cs]
      [] l.kind = "LinearCombination" /\ r.kind = "LinearCombination" ->
            LET m == EngineMultiply(cs, l.terms, r.terms)
            IN  [expr |-> LinearCombination(<< Term(m.o, 1) >>,
                                            OptMul(l.assignment, r.assignment)),
                 cs |-> m.cs]

(***************************************************************************)
(* The constraint trees given to verify.                                   *)
(***************************************************************************)
Leaves ==
    {Eq(VarExpr(i, TRUE), Constant(0)) : i \in 1 .. Len(Secrets)}
        \cup {Eq(Constant(1), VarExpr(Len(Secrets), TRUE))}

RECURSIVE TreesN(_)
\* The trees with exactly n And/Or/Not nodes.
TreesN(n) ==
    IF n = 0 THEN Leaves
    ELSE {Not(c) : c \in TreesN(n - 1)}
         \cup UNION {{And(a, b) : a \in TreesN(i), b \in TreesN(n - 1 - i)}
                        : i \in 0 .. (n - 1)}
         \cup UNION {{Or(a, b) : a \in TreesN(i), b \in TreesN(n - 1 - i)}
                        : i \in 0 .. (n - 1)}

Trees == UNION {TreesN(n) : n \in 0 .. MaxConn}

RECURSIVE Count(_, _)
\* The number of nodes of the given kind in a tree.
Count(c, kind) ==
    (IF c.kind = kind THEN 1 ELSE 0)
    + (CASE c.kind = "Eq" -> 0
         [] c.kind = "Not" -> Count(c.c1, kind)
         [] OTHER -> Count(c.c1, kind) + Count(c.c2, kind))

NoResult == [ok |-> FALSE, lc |-> << >>, assg |-> None]

Outcome(r) == [ok |-> r.ok, lc |-> r.lc, assg |-> r.assg]

NoExpr == Constant(0)

(***************************************************************************)
(* Spec: the prover and the verifier run verify on the same constraint     *)
(* tree, each against its own engine, with the same transcript.            *)
(*   pc: "built" -> "registered" -> "committed" -> "done" | "failed"       *)
(***************************************************************************)
Init ==
    /\ tree \in Trees
    /\ pc = "built"
    /\ pcs = NewCS("prover")
    /\ vcs = NewCS("verifier")
    /\ pres = NoResult
    /\ vres = NoResult
    /\ lhs = NoExpr
    /\ rhs = NoExpr
    /\ product = NoExpr
    /\ wires = << >>

\* The `verify` instruction: Constraint::verify on both sides.
Verify ==
    /\ pc = "built"
    /\ pcs' = VerifyCall(tree, pcs)
    /\ vcs' = VerifyCall(CloseTree(tree), vcs)
    /\ pc' = "registered"
    /\ UNCHANGED <<tree, pres, vres, lhs, rhs, product, wires>>

\* The engine fixes the commitments of the round; the transcript, and with
\* it every challenge, is determined from here on.
CommitmentsFixed ==
    /\ pc = "registered"
    /\ \E seed \in Field :
          /\ pcs' = [pcs EXCEPT !.phase = "randomized", !.seed = seed,
                                !.transcript = seed]
          /\ vcs' = [vcs EXCEPT !.phase = "randomized", !.seed = seed,
                                !.transcript = seed]
    /\ pc' = "committed"
    /\ UNCHANGED <<tree, pres, vres, lhs, rhs, product, wires>>

\* The engine runs the deferred closure in its randomized phase; it may
\* reject one of the gate allocations (f = 0: none).
RunDeferred ==
    /\ pc = "committed"
    /\ pcs.phase = "randomized"
    /\ \E f \in 0 .. MaxFail :
          LET rp == VerifyClosure(pcs.deferred[1], [pcs EXCEPT !.failAt = f])
              rv == VerifyClosure(vcs.deferred[1], [vcs EXCEPT !.failAt = f])
          IN  /\ pcs' = rp.cs
              /\ vcs' = rv.cs
              /\ pres' = Outcome(rp)
              /\ vres' = Outcome(rv)
              /\ pc' = IF rp.ok THEN "done" ELSE "failed"
    /\ UNCHANGED <<tree, lhs, rhs, product, wires>>

Next == Verify \/ CommitmentsFixed \/ RunDeferred

Spec == Init /\ [][Next]_vars

(***************************************************************************)
(* SpecMul: Expression::multiply on the prover's engine, applied to        *)
(* operands of both kinds and to its own results.                          *)
(***************************************************************************)
\* Chained multiplications stop once the engine holds this many gates.
MaxMulGates == 2

MulExprs ==
    {Constant(a) : a \in Field}
        \cup {VarExpr(i, open) : i \in 1 .. Len(Secrets), open \in BOOLEAN}

InitMul ==
    /\ lhs \in MulExprs
    /\ rhs \in MulExprs
    /\ pc = "operands"
    /\ product = NoExpr
    /\ pcs = NewCS("prover")
    /\ vcs = NewCS("verifier")
    /\ tree = Eq(NoExpr, NoExpr)
    /\ pres = NoResult
    /\ vres = NoResult
    /\ wires = << >>

\* product = lhs.multiply(rhs, cs)
DoMultiply ==
    /\ pc = "operands"
    /\ LET m == Multiply(lhs, rhs, pcs)
       IN  /\ product' = m.expr
           /\ pcs' = m.cs
    /\ pc' = "multiplied"
    /\ UNCHANGED <<tree, vcs, pres, vres, lhs, rhs, wires>>

\* The product becomes the left operand of a further multiplication.
Chain ==
    /\ pc = "multiplied"
    /\ Len(pcs.gates) < MaxMulGates
    /\ lhs' = product
    /\ rhs' \in MulExprs
    /\ pc' = "operands"
    /\ UNCHANGED <<tree, pcs, vcs, pres, vres, product, wires>>

NextMul == DoMultiply \/ Chain

SpecMul == InitMul /\ [][NextMul]_vars

(***************************************************************************)
(* SpecNot: the circuit flatten builds for Not(c), as the verifier builds  *)
(* it, against every assignment of its wires a prover could commit to.     *)
(***************************************************************************)
GadgetTrees == {Not(l) : l \in Leaves}

VarsOfLC(lc) == {lc[i].var : i \in 1 .. Len(lc)}

\* The wires the circuit mentions, the constant one excepted.
FreeWires(cs) ==
    ({<< k, g >> : k \in {"L", "R", "O"}, g \in 1 .. Len(cs.gates)}
        \cup UNION {VarsOfLC(cs.constraints[i]) : i \in 1 .. Len(cs.constraints)})
    \ {One}

\* val satisfies the circuit: every gate multiplies, every wire fed by a
\* linear combination equals it, every registered constraint is zero.
Satisfies(val, cs) ==
    /\ \A g \in 1 .. Len(cs.gates) :
          /\ FMul(val[MultiplierLeft(g)], val[MultiplierRight(g)])
                = val[MultiplierOutput(g)]
          /\ IsSome(cs.gates[g].left) =>
                val[MultiplierLeft(g)] = EvalLC(Unwrap(cs.gates[g].left), val)
          /\ IsSome(cs.gates[g].right) =>
                val[MultiplierRight(g)] = EvalLC(Unwrap(cs.gates[g].right), val)
    /\ \A i \in 1 .. Len(cs.constraints) : EvalLC(cs.constraints[i], val) = 0

InitNot ==
    /\ tree \in GadgetTrees
    /\ pc = "gadget"
    /\ vcs = [NewCS("verifier") EXCEPT !.phase = "randomized"]
    /\ pcs = NewCS("prover")
    /\ pres = NoResult
    /\ vres = NoResult
    /\ lhs = NoExpr
    /\ rhs = NoExpr
    /\ product = NoExpr
    /\ wires = << >>

\* The verifier flattens the tree.
FlattenGadget ==
    /\ pc = "gadget"
    /\ LET r == Flatten(CloseTree(tree), vcs)
       IN  /\ vcs' = r.cs
           /\ vres' = Outcome(r)
    /\ pc' = "flattened"
    /\ UNCHANGED <<tree, pcs, pres, lhs, rhs, product, wires>>

\* A prover, honest or not, commits to values for all the wires.
AssignWires ==
    /\ pc = "flattened"
    /\ \E val \in [FreeWires(vcs) -> Field] :
          wires' = [v \in FreeWires(vcs) \cup {One} |->
                        IF v = One THEN 1 ELSE val[v]]
    /\ pc' = "assigned"
    /\ UNCHANGED <<tree, pcs, vcs, pres, vres, lhs, rhs, product>>

NextNot == FlattenGadget \/ AssignWires

SpecNot == InitNot /\ [][NextNot]_vars

(***************************************************************************)
(* Properties.                                                             *)
(***************************************************************************)
\* The prover's engine as the deferred closure found it.
StartOf(cs) ==
    [NewCS(cs.role) EXCEPT !.phase = "randomized", !.seed = cs.seed,
                           !.transcript = cs.seed, !.deferred = cs.deferred,
                           !.failAt = cs.failAt]

\* For a tree with two children: the results of flattening them in turn.
ChildA == Flatten(tree.c1, StartOf(pcs))

ChildB == Flatten(tree.c2, ChildA.cs)

\* The challenge the root And draws: the transcript after both children.
RootZ == ChildB.cs.transcript

RootIs(kind) == pc = "done" /\ tree.kind = kind

\* C1 as stated: whatever challenge z is drawn, the assignment of
\* And(c1, c2), a + z*b, is zero if and only if a and b are both zero.
C1_AndZeroIffBothZero ==
    RootIs("And") =>
        LET a == Unwrap(ChildA.assg)
            b == Unwrap(ChildB.assg)
        IN  (pres.assg = Some(0)) <=> (a = 0 /\ b = 0)

\* C1 amended: the assignment of And(c1, c2) is zero for every challenge
\* when a and b are both zero; when they are not both zero it is zero for
\* exactly one challenge value, z = -a/b with b # 0, and non-zero for every
\* other.
C1_AndZeroForOneChallengeAtMost ==
    RootIs("And") =>
        LET a == Unwrap(ChildA.assg)
            b == Unwrap(ChildB.assg)
            bad == b # 0 /\ RootZ = FMul(FNeg(a), Invert(b))
        IN  /\ IsSome(pres.assg)
            /\ (a = 0 /\ b = 0) => pres.assg = Some(0)
            /\ ~(a = 0 /\ b = 0) => ((pres.assg = Some(0)) <=> bad)

\* An And whose children are not both zero flattens to zero.
C1_Witness ==
    /\ RootIs("And")
    /\ pres.assg = Some(0)
    /\ ChildA.assg # Some(0)
    /\ ChildB.assg # Some(0)

\* C2: the assignment of Or(c1, c2), a*b, is zero if and only if a or b is
\* zero (so non-zero if and only if both are non-zero).
C2_OrZeroIffOneZero ==
    RootIs("Or") =>
        LET a == Unwrap(ChildA.assg)
            b == Unwrap(ChildB.assg)
        IN  /\ IsSome(pres.assg)
            /\ (pres.assg = Some(0)) <=> (a = 0 \/ b = 0)
            /\ (pres.assg # Some(0)) <=> (a # 0 /\ b # 0)

\* An Or of two non-zero children, neither of them 1.
C2_Witness ==
    /\ RootIs("Or")
    /\ Unwrap(ChildA.assg) \notin {0, 1}
    /\ Unwrap(ChildB.assg) \notin {0, 1}

\* The tree is Not(Eq(x, 0)) with x known to be 0 or 1.
IsNotEqZero(c) ==
    /\ c.kind = "Not"
    /\ c.c1.kind = "Eq"
    /\ c.c1.e2 = Constant(0)
    /\ Eval(c.c1.e1) \in {Some(0), Some(1)}

\* C3 as stated: for x known to be 0 or 1, Not(Eq(x,0)) flattens to the
\* assignment x, and Not(Not(Eq(x,0))) to x again.
C3_NotEqYieldsX ==
    /\ (pc = "done" /\ IsNotEqZero(tree)) => pres.assg = Eval(tree.c1.e1)
    /\ (pc = "done" /\ tree.kind = "Not" /\ IsNotEqZero(tree.c1)) =>
            pres.assg = Eval(tree.c1.c1.e1)

\* C3 amended: for x known to be 0 or 1, Not(Eq(x,0)) flattens to the
\* assignment 1 - x, and Not(Not(Eq(x,0))) to x.
C3_NotEqYieldsComplement ==
    /\ (pc = "done" /\ IsNotEqZero(tree)) =>
            pres.assg = Some(FSub(1, Unwrap(Eval(tree.c1.e1))))
    /\ (pc = "done" /\ tree.kind = "Not" /\ IsNotEqZero(tree.c1)) =>
            pres.assg = Eval(tree.c1.c1.e1)

\* Not(Not(Eq(x,0))) with x = 1 has been flattened.
C3_Witness ==
    /\ pc = "done"
    /\ tree.kind = "Not"
    /\ IsNotEqZero(tree.c1)
    /\ Eval(tree.c1.c1.e1) = Some(1)
    /\ pres.assg = Some(1)

BothLinear == lhs.kind = "LinearCombination" /\ rhs.kind = "LinearCombination"

\* C4: Expression::multiply adds no gate to the engine when an operand is a
\* Constant, and exactly one when both are LinearCombinations; the product
\* is then the single term (output wire of the new gate, 1).
C4_MultiplyGateCount ==
    [][(pc = "operands" /\ pc' = "multiplied") =>
          /\ Len(pcs'.gates) - Len(pcs.gates) = (IF BothLinear THEN 1 ELSE 0)
          /\ BothLinear =>
                /\ product'.kind = "LinearCombination"
                /\ product'.terms
                      = << Term(MultiplierOutput(Len(pcs.gates) + 1), 1) >>
          /\ ~BothLinear => pcs' = pcs]_vars

\* Two linear combinations have been multiplied on an engine that already
\* held a gate.
C4_Witness ==
    /\ pc = "multiplied"
    /\ BothLinear
    /\ Len(pcs.gates) = 2
    /\ product.terms = << Term(MultiplierOutput(2), 1) >>

\* C5: when the engine rejects a gate allocation during the flattening run
\* by verify, the engine holds the constraints it held before the call (here
\* none): no constraint of the failed call remains registered.
C5_NoConstraintLeftOnFailure ==
    pc = "failed" => /\ pcs.constraints = << >>
                     /\ vcs.constraints = << >>

CallsOf(cs, op) == {i \in 1 .. Len(cs.calls) : cs.calls[i].op = op}

Untouched(cs) ==
    /\ cs.calls = << >>
    /\ cs.gates = << >>
    /\ cs.constraints = << >>
    /\ cs.transcript = cs.seed

\* C6: verify itself draws no challenge, allocates no gate and registers no
\* constraint; every call the engine receives is made in its randomized
\* phase, after the commitments are fixed; and the final constraint on the
\* flattened combination is the last call, made after the whole tree has
\* been flattened (and not made at all when flattening fails).
C6_VerifyDefersEverything ==
    /\ pc \in {"built", "registered", "committed"} =>
            Untouched(pcs) /\ Untouched(vcs)
    /\ pc = "registered" =>
            pcs.deferred = << tree >> /\ pcs.phase = "first"
    /\ \A i \in 1 .. Len(pcs.calls) : pcs.calls[i].phase = "randomized"
    /\ \A i \in 1 .. Len(vcs.calls) : vcs.calls[i].phase = "randomized"
    /\ pc = "done" =>
            /\ pcs.calls[Len(pcs.calls)].op = "constrain"
            /\ pcs.calls[Len(pcs.calls)].a = pres.lc
            /\ pcs.constraints[Len(pcs.constraints)] = pres.lc
            /\ \A i \in CallsOf(pcs, "challenge_scalar") : i < Len(pcs.calls)
    /\ pc = "failed" =>
            pcs.calls[Len(pcs.calls)].op = "allocate_multiplier"

\* verify has returned, for a tree with an And node, and nothing has been
\* drawn yet.
C6_Witness ==
    /\ pc = "registered"
    /\ Count(tree, "And") > 0
    /\ pcs.deferred = << tree >>
    /\ pcs.calls = << >>

\* The value of the child's combination x under the committed wires.
GadgetX == EvalLC(Flatten(CloseTree(tree.c1), NewCS("verifier")).lc, wires)

\* C7: every assignment of the wires that satisfies the two gates and the
\* four constraints of the Not branch has r1 = 1 when x = 0 and r1 = 0 when
\* x # 0, whatever r2 is; the combination Not returns is the wire r1, so it
\* is zero exactly when x is non-zero.
C7_NotGadgetSound ==
    (pc = "assigned" /\ Satisfies(wires, vcs)) =>
        /\ Len(vcs.gates) = 2 /\ Len(vcs.constraints) = 4
        /\ wires[MultiplierLeft(1)] = GadgetX
        /\ wires[MultiplierLeft(2)] = GadgetX
        /\ GadgetX = 0 => wires[MultiplierRight(1)] = 1
        /\ GadgetX # 0 => wires[MultiplierRight(1)] = 0
        /\ vres.lc = LCFromVar(MultiplierRight(1))
        /\ (EvalLC(vres.lc, wires) = 0) <=> (GadgetX # 0)

\* A satisfying assignment with x = 0 and a free value on r2.
C7_Witness ==
    /\ pc = "assigned"
    /\ Satisfies(wires, vcs)
    /\ GadgetX = 0
    /\ wires[MultiplierRight(2)] = 3

\* All registered constraints but the last hold under val.
GadgetConstraintsHold(val, cs) ==
    \A i \in 1 .. (Len(cs.constraints) - 1) : EvalLC(cs.constraints[i], val) = 0

\* C8: the Not branch assigns y = 1 if x = 0 and y = 0 otherwise, and w with
\* x*w = 1 - y (w = 1 when x = 0, the inverse of x otherwise); the values
\* (x, y) and (x, w) it gives the two gates satisfy the four constraints it
\* registers.  (Checked for the root Not; the constraints of every Not of
\* the tree are among those required to hold.)
C8_NotAssignmentsSatisfy ==
    RootIs("Not") =>
        LET x == Unwrap(Flatten(tree.c1, StartOf(pcs)).assg)
            n == Len(pcs.gates)
            g1 == Unwrap(pcs.gates[n - 1].assg)
            g2 == Unwrap(pcs.gates[n].assg)
            y == g1[2]
            w == g2[2]
        IN  /\ g1[1] = x /\ g2[1] = x
            /\ y = (IF x = 0 THEN 1 ELSE 0)
            /\ pres.assg = Some(y)
            /\ FMul(x, w) = FSub(1, y)
            /\ x = 0 => w = 1
            /\ x # 0 => FMul(x, w) = 1
            /\ g1[3] = 0
            /\ GadgetConstraintsHold(ProverValuation(pcs), pcs)

\* A Not over a child whose assignment is neither 0 nor 1.
C8_Witness ==
    /\ RootIs("Not")
    /\ Unwrap(Flatten(tree.c1, StartOf(pcs)).assg) \notin {0, 1}
    /\ Unwrap(pcs.gates[Len(pcs.gates)].assg)[2] \notin {0, 1}

\* A call with its assignment argument masked.
Structure(call) == [call EXCEPT !.assg = None]

Wiring(gate) == << gate.left, gate.right >>

\* C9: flattening with every assignment unknown and with every assignment
\* known issue the same engine calls with the same linear combinations,
\* build the same circuit and return the same combination; only the
\* assignments differ (None against Some), and an unknown assignment causes
\* no error: flattening fails only where the engine rejects an allocation.
C9_SameStructureBothViews ==
    pc \in {"done", "failed"} =>
        /\ Len(pcs.calls) = Len(vcs.calls)
        /\ \A i \in 1 .. Len(pcs.calls) :
              /\ Structure(pcs.calls[i]) = Structure(vcs.calls[i])
              /\ vcs.calls[i].assg = None
              /\ pcs.calls[i].op = "allocate_multiplier" => IsSome(pcs.calls[i].assg)
        /\ pcs.constraints = vcs.constraints
        /\ Len(pcs.gates) = Len(vcs.gates)
        /\ \A g \in 1 .. Len(pcs.gates) : Wiring(pcs.gates[g]) = Wiring(vcs.gates[g])
        /\ pres.lc = vres.lc
        /\ pres.ok = vres.ok
        /\ IsSome(pres.assg) = pres.ok
        /\ vres.assg = None
        /\ ~vres.ok => vcs.nalloc = vcs.failAt

\* Both views have flattened a tree with a Not, an Or or And, and succeeded.
C9_Witness ==
    /\ pc = "done"
    /\ Count(tree, "Not") > 0
    /\ Count(tree, "Or") + Count(tree, "And") > 0
    /\ vres.ok /\ vres.assg = None /\ IsSome(pres.assg)

\* C10: a successful flatten allocates (number of Or) + 2*(number of Not)
\* gates, draws (number of And) challenges, and registers 4*(number of Not)
\* constraints by its own constrain calls; Eq nodes cause no call; verify
\* then registers one further constraint.  The challenge of a root And is
\* drawn after every call made for its children.
C10_FlattenEffectsEnumerated ==
    pc = "done" =>
        LET ands == Count(tree, "And")
            ors == Count(tree, "Or")
            nots == Count(tree, "Not")
            n == Len(pcs.calls)
        IN  /\ Len(pcs.gates) = ors + 2 * nots
            /\ Cardinality(CallsOf(pcs, "multiply")) = ors
            /\ Cardinality(CallsOf(pcs, "allocate_multiplier")) = 2 * nots
            /\ Cardinality(CallsOf(pcs, "challenge_scalar")) = ands
            /\ Cardinality(CallsOf(pcs, "constrain")) = 4 * nots + 1
            /\ Len(pcs.constraints) = 4 * nots + 1
            /\ n = ands + ors + 6 * nots + 1
            /\ pcs.transcript = (pcs.seed + ands) % P
            /\ tree.kind = "And" =>
                  /\ pcs.calls[n - 1].op = "challenge_scalar"
                  /\ Len(ChildB.cs.calls) = n - 2

\* A tree with an And root over a Not has been verified: two gates, four
\* constraints and the final one, one challenge.
C10_Witness ==
    /\ pc = "done"
    /\ tree.kind = "And"
    /\ Count(tree, "Not") = 1
    /\ Len(pcs.gates) = 2
    /\ Len(pcs.constraints) = 5
    /\ Cardinality(CallsOf(pcs, "challenge_scalar")) = 1

====
